---- MODULE Spec2Model ----
(***************************************************************************)
(* Model of the embedding bundle pipeline:                                 *)
(*   dataset/embedder.py          main(): batch-embed a corpus and write   *)
(*                                embeddings.bin, labels.json, meta.json   *)
(*   dataset/train_lr_from_bin.py module body: read the bundle, encode the *)
(*                                labels, fit, export model_weights.json   *)
(* The three bundle files and the exported document are the shared disk.   *)
(***************************************************************************)
EXTENDS Integers, Sequences, FiniteSets, TLC

\* ------------------------------------------------------------------ bounds
MaxN == 3          \* longest corpus / label vector
MaxB == 2          \* largest batch size tried
Dim == 2           \* embedding dimension of the stub provider
MaxWrites == 2     \* embedding runs plus outside file changes per behaviour

\* ------------------------------------------------------- 32-bit floats
\* A float32 value is its IEEE-754 fields; the file holds its 4 bytes,
\* little-endian.
F32(sg, ex, mt) == [sign |-> sg, exp |-> ex, mant |-> mt]

F32ToBytes(v) ==
    << v.mant % 256,
       (v.mant \div 256) % 256,
       (v.mant \div 65536) + 128 * (v.exp % 2),
       (v.exp \div 2) + 128 * v.sign >>

F32FromBytes(b) ==
    [sign |-> b[4] \div 128,
     exp  |-> (b[4] % 128) * 2 + (b[3] \div 128),
     mant |-> (b[3] % 128) * 65536 + b[2] * 256 + b[1]]

\* A float64 value read from 8 bytes: sign, 11-bit exponent, 52-bit mantissa
\* kept as three limbs (20, 16 and 16 bits).
F64FromBytes(b) ==
    [sign |-> b[8] \div 128,
     exp  |-> (b[8] % 128) * 16 + (b[7] \div 16),
     mant |-> << (b[7] % 16) * 65536 + b[6] * 256 + b[5],
                 b[4] * 256 + b[3],
                 b[2] * 256 + b[1] >>]

ItemSize(dtype) == IF dtype = "float32" THEN 4 ELSE 8

FromBytes(dtype, b) == IF dtype = "float32" THEN F32FromBytes(b) ELSE F64FromBytes(b)

\* sklearn rejects NaN and infinity in X.
IsFinite(dtype, v) == IF dtype = "float32" THEN v.exp # 255 ELSE v.exp # 2047

\* ------------------------------------------------------- sequences
Min(a, b) == IF a < b THEN a ELSE b

\* Python slice s[lo:hi] (0-based, hi exclusive, clipped to the length).
Slice(s, lo, hi) == SubSeq(s, lo + 1, Min(hi, Len(s)))

RECURSIVE Concat(_)
Concat(ss) == IF ss = <<>> THEN <<>> ELSE Head(ss) \o Concat(Tail(ss))

SeqsUpTo(S, n) == UNION {[1..k -> S] : k \in 0..n}

Range(s) == {s[i] : i \in 1..Len(s)}

\* ------------------------------------------------------- labels
\* A JSON label is a string (a sequence of code points) or an integer.
StrLabel(s) == [isStr |-> TRUE, s |-> s, n |-> 0]
IntLabel(n) == [isStr |-> FALSE, s |-> <<>>, n |-> n]

\* Python str < str: lexicographic by code point, a proper prefix is smaller.
RECURSIVE StrLess(_, _)
StrLess(s, t) ==
    IF s = <<>> THEN t # <<>>
    ELSE IF t = <<>> THEN FALSE
    ELSE IF s[1] # t[1] THEN s[1] < t[1]
    ELSE StrLess(Tail(s), Tail(t))

\* Python < on two labels of one type.
LabelLess(a, b) == IF a.isStr THEN StrLess(a.s, b.s) ELSE a.n < b.n

\* str(n) of a Python int: decimal digits, "-" (45) first when negative.
RECURSIVE Digits(_)
Digits(n) == IF n < 10 THEN <<48 + n>> ELSE Digits(n \div 10) \o <<48 + (n % 10)>>

IntToStr(n) == IF n < 0 THEN <<45>> \o Digits(0 - n) ELSE Digits(n)

\* sorted(list(S)) of a set of labels of one type: ascending.
RECURSIVE Sorted(_)
Sorted(S) ==
    IF S = {} THEN <<>>
    ELSE LET m == CHOOSE x \in S : \A z \in S \ {x} : LabelLess(x, z)
         IN  <<m>> \o Sorted(S \ {m})

\* The distinct labels in order of first appearance (what an encoder that
\* forgot to sort would produce).
RECURSIVE FirstAppearance(_)
FirstAppearance(s) ==
    IF s = <<>> THEN <<>>
    ELSE LET r == FirstAppearance(SubSeq(s, 1, Len(s) - 1))
         IN  IF s[Len(s)] \in Range(r) THEN r ELSE Append(r, s[Len(s)])

\* unique_labels = sorted(list(set(labels_raw)))
unique_labels_of(raw) == Sorted(Range(raw))

IndexOf(seq, x) == CHOOSE i \in 1..Len(seq) : seq[i] = x

\* sorted() raises TypeError when the set mixes str and int.
Homogeneous(raw) == \A i \in 1..Len(raw) : raw[i].isStr = raw[1].isStr

\* Lines 33-41: the label encoder.  ok = FALSE stands for the exception
\* (IndexError on an empty list, TypeError on mixed label types).
EncodeLabels(raw) ==
    IF raw = <<>> \/ ~Homogeneous(raw)
    THEN [ok |-> FALSE, unique |-> <<>>, map |-> <<>>, y |-> <<>>]
    ELSE LET u == unique_labels_of(raw) IN
         IF raw[1].isStr
         THEN LET m == [k \in {u[i].s : i \in 1..Len(u)} |->
                           IndexOf(u, StrLabel(k)) - 1]
              IN  [ok |-> TRUE, unique |-> u, map |-> m,
                   y |-> [i \in 1..Len(raw) |-> m[raw[i].s]]]
         ELSE [ok |-> TRUE, unique |-> u,
               map |-> [k \in {IntToStr(u[i].n) : i \in 1..Len(u)} |->
                           (CHOOSE l \in Range(u) : IntToStr(l.n) = k).n],
               y |-> [i \in 1..Len(raw) |-> raw[i].n]]

\* ------------------------------------------------------- matrices
\* A matrix is a sequence of rows.
Rows(M) == Len(M)
Cols(M) == IF M = <<>> THEN 0 ELSE Len(M[1])

\* The embedding provider (model.encode): one fixed Dim-vector per text,
\* in the order of the batch.  Texts are 1, 2, ...
Emb(t) == [j \in 1..Dim |-> F32(t % 2, 126 + j, t * 65536 + j * 256 + t + j)]

Encode(batch_texts) == [i \in 1..Len(batch_texts) |-> Emb(batch_texts[i])]

\* np.vstack of the batch matrices (raises on an empty list, see Combine).
VStack(all) == Concat(all)

\* Column-major flattening (what tofile would write for a Fortran-ordered
\* copy).
FlattenColMajor(M) ==
    [k \in 1..(Rows(M) * Cols(M)) |->
        M[((k - 1) % Rows(M)) + 1][((k - 1) \div Rows(M)) + 1]]

\* ndarray.tofile writes the elements in C (row-major) order.
Flatten(M) == Concat(M)

ToFile(M) ==
    LET flat == Flatten(M)
    IN  Concat([k \in 1..Len(flat) |-> F32ToBytes(flat[k])])

\* np.fromfile(path, dtype): as many whole items as the file holds; bytes
\* left over after the last whole item are dropped without an error.
FromFile(bytes, dtype) ==
    LET w == ItemSize(dtype)
        n == Len(bytes) \div w
    IN  [k \in 1..n |-> FromBytes(dtype, SubSeq(bytes, (k - 1) * w + 1, k * w))]

\* ndarray.reshape(r, c): one of the two may be -1 and is then inferred.
ReshapeOk(size, r, c) ==
    IF r = -1 /\ c = -1 THEN FALSE
    ELSE IF r = -1 THEN c > 0 /\ size % c = 0
    ELSE IF c = -1 THEN r > 0 /\ size % r = 0
    ELSE r >= 0 /\ c >= 0 /\ r * c = size

Reshape(flat, r, c) ==
    LET rr == IF r = -1 THEN Len(flat) \div c ELSE r
        cc == IF c = -1 THEN Len(flat) \div r ELSE c
    IN  [i \in 1..rr |-> [j \in 1..cc |-> flat[(i - 1) * cc + j]]]

\* ------------------------------------------------------- the optimizer
\* LogisticRegression.fit(X, y) validates its input: X and y of equal,
\* non-zero length, at least one feature, finite values, two classes or more.
FitOk(X, y, dtype) ==
    /\ Rows(X) >= 1
    /\ Cols(X) >= 1
    /\ Rows(X) = Len(y)
    /\ \A i \in 1..Rows(X) : \A j \in 1..Cols(X) : IsFinite(dtype, X[i][j])
    /\ Cardinality(Range(y)) >= 2

\* coef_ has one row per class, except that a two-class problem gets a
\* single row; intercept_ has the same length.  The fitted values are the
\* optimizer's business: zeros stand for them.
CoefRows(y) == IF Cardinality(Range(y)) = 2 THEN 1 ELSE Cardinality(Range(y))

Coef(X, y) == [c \in 1..CoefRows(y) |-> [j \in 1..Cols(X) |-> F32(0, 0, 0)]]

Intercept(y) == [c \in 1..CoefRows(y) |-> F32(0, 0, 0)]

\* ------------------------------------------------------- state
VARIABLES
    \* embedder.py main()
    wpc,             \* "idle", "embed", "write_embed", "write_labels",
                     \* "write_meta", "done", "failed", "killed"
    werr,            \* the exception that ended the run, "" when none
    texts, labels,   \* the two columns of the loaded corpus
    batch_size,      \* BATCH_SIZE
    start,           \* the loop variable of the batch loop
    all_embeddings,  \* list of batch matrices
    embeddings,      \* the stacked matrix
    run,             \* embedding runs started so far; the current run's id
    \* the files
    embFile,         \* embeddings.bin
    labelsFile,      \* labels.json
    metaFile,        \* meta.json
    outFile,         \* model_weights.json
    \* history: which run wrote each bundle file (0: none, or written from
    \* outside), and which runs ran to completion
    gen, done_runs,
    tampers,         \* outside modifications so far
    lastM,           \* history: the matrix the last tofile call was given
    \* train_lr_from_bin.py
    tpc,             \* "idle", "load_embeddings", "load_labels", "convert",
                     \* "train", "export", "done", "failed"
    num_samples, embedding_dim, dtype, X,
    labels_raw, unique_labels, label_to_id, y,
    coef, intercept

wvars == <<wpc, werr, texts, labels, batch_size, start, all_embeddings, embeddings, run>>
fvars == <<embFile, labelsFile, metaFile, gen, done_runs, tampers, lastM>>
tvars == <<tpc, num_samples, embedding_dim, dtype, X, labels_raw, unique_labels,
           label_to_id, y, coef, intercept>>
vars == <<wvars, fvars, outFile, tvars>>

WRest == {"idle", "done", "failed", "killed"}
TRest == {"idle", "done", "failed"}

\* The corpus rows the runs draw from: <<text, label>>, labels "b", "a", "ab".
CorpusRows == {<<1, <<98>>>>, <<2, <<97>>>>, <<2, <<97, 98>>>>}

Corpora == SeqsUpTo(CorpusRows, MaxN)

NoFile == [present |-> FALSE]

\* The locals of a process that is not running hold nothing.
NoEmbedder(t, l, b, s, a, e) ==
    t = <<>> /\ l = <<>> /\ b = 1 /\ s = 0 /\ a = <<>> /\ e = <<>>

NoTrainer(n, d, dt, x, lr, u, m, yy, w, b) ==
    /\ n = 0 /\ d = 0 /\ dt = "float32" /\ x = <<>> /\ lr = <<>>
    /\ u = <<>> /\ m = <<>> /\ yy = <<>> /\ w = <<>> /\ b = <<>>

EmbedderExits ==
    NoEmbedder(texts', labels', batch_size', start', all_embeddings', embeddings')

TrainerExits ==
    NoTrainer(num_samples', embedding_dim', dtype', X', labels_raw',
              unique_labels', label_to_id', y', coef', intercept')

Init ==
    /\ wpc = "idle" /\ werr = ""
    /\ NoEmbedder(texts, labels, batch_size, start, all_embeddings, embeddings)
    /\ run = 0
    /\ embFile = NoFile /\ labelsFile = NoFile /\ metaFile = NoFile
    /\ outFile = NoFile
    /\ gen = [emb |-> 0, labels |-> 0, meta |-> 0] /\ done_runs = {}
    /\ tampers = 0 /\ lastM = <<>>
    /\ tpc = "idle"
    /\ NoTrainer(num_samples, embedding_dim, dtype, X, labels_raw,
                 unique_labels, label_to_id, y, coef, intercept)

\* ------------------------------------------------------- embedder.py
\* Lines 21-34: load the corpus, start with an empty list of batches.
StartEmbed(c, b) ==
    /\ wpc \in WRest /\ tpc \in TRest
    /\ run + tampers < MaxWrites
    /\ run' = run + 1
    /\ texts' = [i \in 1..Len(c) |-> c[i][1]]
    /\ labels' = [i \in 1..Len(c) |-> StrLabel(c[i][2])]
    /\ batch_size' = b
    /\ start' = 0
    /\ all_embeddings' = <<>>
    /\ embeddings' = <<>>
    /\ wpc' = "embed" /\ werr' = ""
    /\ UNCHANGED <<fvars, outFile, tvars>>

\* Lines 36-45: one iteration of the batch loop.
EmbedBatch ==
    /\ wpc = "embed" /\ start < Len(texts)
    /\ all_embeddings' =
          Append(all_embeddings, Encode(Slice(texts, start, start + batch_size)))
    /\ start' = start + batch_size
    /\ UNCHANGED <<wpc, werr, texts, labels, batch_size, embeddings, run,
                   fvars, outFile, tvars>>

\* Line 38: the embedding provider raises.
EncodeFail ==
    /\ wpc = "embed" /\ start < Len(texts)
    /\ wpc' = "failed" /\ werr' = "encode"
    /\ EmbedderExits
    /\ UNCHANGED <<run, fvars, outFile, tvars>>

\* Lines 48-49: after the loop, stack the batches.  np.vstack raises
\* ValueError when the list is empty.
Combine ==
    /\ wpc = "embed" /\ start >= Len(texts)
    /\ IF all_embeddings = <<>>
       THEN /\ wpc' = "failed" /\ werr' = "ValueError"
            /\ EmbedderExits
       ELSE /\ embeddings' = VStack(all_embeddings)
            /\ wpc' = "write_embed"
            /\ UNCHANGED <<werr, texts, labels, batch_size, start, all_embeddings>>
    /\ UNCHANGED <<run, fvars, outFile, tvars>>

\* Line 55.
WriteEmbed ==
    /\ wpc = "write_embed"
    /\ embFile' = [present |-> TRUE, bytes |-> ToFile(embeddings)]
    /\ gen' = [gen EXCEPT !.emb = run]
    /\ lastM' = embeddings
    /\ wpc' = "write_labels"
    /\ UNCHANGED <<werr, texts, labels, batch_size, start, all_embeddings,
                   embeddings, run, labelsFile, metaFile, done_runs, tampers,
                   outFile, tvars>>

\* Lines 59-60.
WriteLabels ==
    /\ wpc = "write_labels"
    /\ labelsFile' = [present |-> TRUE, doc |-> labels]
    /\ gen' = [gen EXCEPT !.labels = run]
    /\ wpc' = "write_meta"
    /\ UNCHANGED <<werr, texts, labels, batch_size, start, all_embeddings,
                   embeddings, run, embFile, metaFile, done_runs, tampers,
                   lastM, outFile, tvars>>

\* Lines 49, 63-72: count and dim are the shape of the stacked matrix.
MetaOf(M) ==
    [present |-> TRUE, count |-> Rows(M), dim |-> Cols(M),
     hasDtype |-> TRUE, dtype |-> "float32"]

WriteMeta ==
    /\ wpc = "write_meta"
    /\ metaFile' = MetaOf(embeddings)
    /\ gen' = [gen EXCEPT !.meta = run]
    /\ done_runs' = done_runs \cup {run}
    /\ wpc' = "done"
    /\ EmbedderExits
    /\ UNCHANGED <<werr, run, embFile, labelsFile, tampers, lastM, outFile, tvars>>

\* The process is interrupted between two statements.
Kill ==
    /\ wpc \in {"embed", "write_embed", "write_labels", "write_meta"}
    /\ wpc' = "killed"
    /\ EmbedderExits
    /\ UNCHANGED <<werr, run, fvars, outFile, tvars>>

\* ------------------------------------------------------- train_lr_from_bin.py
TrainerFails ==
    /\ tpc' = "failed"
    /\ TrainerExits

\* Line 16: the element type chosen from the metadata.
DtypeOf(meta) ==
    IF (IF meta.hasDtype THEN meta.dtype ELSE "float32") = "float32"
    THEN "float32" ELSE "float64"

\* Lines 10-16: a new training run reads meta.json.
LoadMeta ==
    /\ tpc \in TRest /\ wpc \in WRest
    /\ X' = <<>> /\ labels_raw' = <<>> /\ unique_labels' = <<>>
    /\ label_to_id' = <<>> /\ y' = <<>> /\ coef' = <<>> /\ intercept' = <<>>
    /\ IF metaFile.present
       THEN /\ num_samples' = metaFile.count
            /\ embedding_dim' = metaFile.dim
            /\ dtype' = DtypeOf(metaFile)
            /\ tpc' = "load_embeddings"
       ELSE /\ num_samples' = 0 /\ embedding_dim' = 0 /\ dtype' = "float32"
            /\ tpc' = "failed"
    /\ UNCHANGED <<wvars, fvars, outFile>>

\* Lines 24-25: read the binary file and give it the metadata's shape.
LoadEmbeddings ==
    /\ tpc = "load_embeddings"
    /\ IF /\ embFile.present
          /\ ReshapeOk(Len(FromFile(embFile.bytes, dtype)), num_samples, embedding_dim)
       THEN /\ X' = Reshape(FromFile(embFile.bytes, dtype), num_samples, embedding_dim)
            /\ tpc' = "load_labels"
            /\ UNCHANGED <<num_samples, embedding_dim, dtype, labels_raw,
                           unique_labels, label_to_id, y, coef, intercept>>
       ELSE TrainerFails
    /\ UNCHANGED <<wvars, fvars, outFile>>

\* Lines 30-31.
LoadLabels ==
    /\ tpc = "load_labels"
    /\ IF labelsFile.present
       THEN /\ labels_raw' = labelsFile.doc
            /\ tpc' = "convert"
            /\ UNCHANGED <<num_samples, embedding_dim, dtype, X, unique_labels,
                           label_to_id, y, coef, intercept>>
       ELSE TrainerFails
    /\ UNCHANGED <<wvars, fvars, outFile>>

\* Lines 33-41.
ConvertLabels ==
    /\ tpc = "convert"
    /\ LET e == EncodeLabels(labels_raw) IN
       IF e.ok
       THEN /\ unique_labels' = e.unique
            /\ label_to_id' = e.map
            /\ y' = e.y
            /\ tpc' = "train"
            /\ UNCHANGED <<num_samples, embedding_dim, dtype, X, labels_raw,
                           coef, intercept>>
       ELSE TrainerFails
    /\ UNCHANGED <<wvars, fvars, outFile>>

\* Lines 47-54.
Train ==
    /\ tpc = "train"
    /\ IF FitOk(X, y, dtype)
       THEN /\ coef' = Coef(X, y)
            /\ intercept' = Intercept(y)
            /\ tpc' = "export"
            /\ UNCHANGED <<num_samples, embedding_dim, dtype, X, labels_raw,
                           unique_labels, label_to_id, y>>
       ELSE TrainerFails
    /\ UNCHANGED <<wvars, fvars, outFile>>

\* Lines 57-64: the exported document.
ExportDoc ==
    [present |-> TRUE,
     num_classes |-> Len(unique_labels),
     num_features |-> embedding_dim,
     classes |-> unique_labels,
     label_to_id |-> label_to_id,
     weights |-> coef,
     bias |-> intercept]

\* Lines 57-67.
Export ==
    /\ tpc = "export"
    /\ outFile' = ExportDoc
    /\ tpc' = "done"
    /\ TrainerExits
    /\ UNCHANGED <<wvars, fvars>>

\* ------------------------------------------------------- the files as input
\* Between runs the bundle files may be replaced or damaged from outside:
\* the training script reads whatever is at the three paths.
TamperLabelVecs ==
    SeqsUpTo({IntLabel(0), IntLabel(1), IntLabel(5), StrLabel(<<97>>)}, MaxN)

CanTamper == wpc \in WRest /\ tpc \in TRest /\ run + tampers < MaxWrites

\* k bytes appended to embeddings.bin, or its last k bytes cut off.
TamperEmbed(k, grow) ==
    /\ CanTamper /\ embFile.present
    /\ grow \/ Len(embFile.bytes) >= k
    /\ embFile' = [present |-> TRUE,
                   bytes |-> IF grow THEN embFile.bytes \o [i \in 1..k |-> 0]
                             ELSE SubSeq(embFile.bytes, 1, Len(embFile.bytes) - k)]
    /\ gen' = [gen EXCEPT !.emb = 0]
    /\ tampers' = tampers + 1
    /\ UNCHANGED <<wvars, labelsFile, metaFile, done_runs, lastM, outFile, tvars>>

TamperLabels(v) ==
    /\ CanTamper
    /\ labelsFile' = [present |-> TRUE, doc |-> v]
    /\ gen' = [gen EXCEPT !.labels = 0]
    /\ tampers' = tampers + 1
    /\ UNCHANGED <<wvars, embFile, metaFile, done_runs, lastM, outFile, tvars>>

TamperMeta(c, d, hd, dt) ==
    /\ CanTamper
    /\ metaFile' = [present |-> TRUE, count |-> c, dim |-> d,
                    hasDtype |-> hd, dtype |-> dt]
    /\ gen' = [gen EXCEPT !.meta = 0]
    /\ tampers' = tampers + 1
    /\ UNCHANGED <<wvars, embFile, labelsFile, done_runs, lastM, outFile, tvars>>

\* ------------------------------------------------------- specification
Writer ==
    \/ \E c \in Corpora, b \in 1..MaxB : StartEmbed(c, b)
    \/ EmbedBatch
    \/ EncodeFail
    \/ Combine
    \/ WriteEmbed
    \/ WriteLabels
    \/ WriteMeta
    \/ Kill

Trainer ==
    \/ LoadMeta
    \/ LoadEmbeddings
    \/ LoadLabels
    \/ ConvertLabels
    \/ Train
    \/ Export

Tamper ==
    \/ \E k \in 1..3, grow \in BOOLEAN : TamperEmbed(k, grow)
    \/ \E v \in TamperLabelVecs : TamperLabels(v)
    \/ \E c \in -1..MaxN, d \in {-1} \cup 1..Dim :
          \/ TamperMeta(c, d, TRUE, "float32")
          \/ TamperMeta(c, d, TRUE, "float64")
          \/ TamperMeta(c, d, FALSE, "")

Next == Writer \/ Trainer \/ Tamper

Spec == Init /\ [][Next]_vars

\* One embedding run from an empty directory, then training runs: the
\* pipeline as it is meant to be used.
NextOneRun ==
    \/ \E c \in Corpora, b \in 1..MaxB : run = 0 /\ StartEmbed(c, b)
    \/ EmbedBatch
    \/ EncodeFail
    \/ Combine
    \/ WriteEmbed
    \/ WriteLabels
    \/ WriteMeta
    \/ Kill
    \/ Trainer

SpecOneRun == Init /\ [][NextOneRun]_vars

\* The label encoder alone: the training script has read an empty bundle
\* (count 0, dim 0, no bytes) and any labels document; it converts the labels.
LabelValues ==
    {StrLabel(<<97>>), StrLabel(<<98>>), StrLabel(<<97, 98>>),
     IntLabel(0), IntLabel(1), IntLabel(5)}

InitEncoder ==
    /\ wpc = "idle" /\ werr = ""
    /\ NoEmbedder(texts, labels, batch_size, start, all_embeddings, embeddings)
    /\ run = 0
    /\ embFile = [present |-> TRUE, bytes |-> <<>>]
    /\ metaFile = [present |-> TRUE, count |-> 0, dim |-> 0,
                   hasDtype |-> TRUE, dtype |-> "float32"]
    /\ labels_raw \in SeqsUpTo(LabelValues, MaxN)
    /\ labelsFile = [present |-> TRUE, doc |-> labels_raw]
    /\ outFile = NoFile
    /\ gen = [emb |-> 0, labels |-> 0, meta |-> 0] /\ done_runs = {}
    /\ tampers = 0 /\ lastM = <<>>
    /\ tpc = "convert"
    /\ num_samples = 0 /\ embedding_dim = 0 /\ dtype = "float32" /\ X = <<>>
    /\ unique_labels = <<>> /\ label_to_id = <<>> /\ y = <<>>
    /\ coef = <<>> /\ intercept = <<>>

NextEncoder == ConvertLabels

SpecEncoder == InitEncoder /\ [][NextEncoder]_vars

\* ------------------------------------------------------- properties
\* The training run has reshaped the binary file and goes on with it.
PastLoad == tpc \in {"load_labels", "convert", "train", "export"}

\* The bundle on disk was written, all of it, by one completed embedding run
\* and nothing has written to it since.
BundleIntact ==
    /\ gen.emb \in done_runs
    /\ gen.labels = gen.emb
    /\ gen.meta = gen.emb

Perms(s) ==
    {[i \in 1..Len(s) |-> s[p[i]]] :
        p \in {q \in [1..Len(s) -> 1..Len(s)] :
                 \A i, j \in 1..Len(s) : q[i] = q[j] => i = j}}

AllStr(raw) == \A i \in 1..Len(raw) : raw[i].isStr

\* The key a label has in label_to_id.
KeyOf(lbl) == IF lbl.isStr THEN lbl.s ELSE IntToStr(lbl.n)

\* C1: when the batch loop is over, the stage assembles a matrix of exactly
\* N rows whose row i is the embedding of text i, from consecutive batches of
\* batch_size texts (only the last may be shorter), whatever batch_size is.
C1_OrderPreservation ==
    [][(wpc = "embed" /\ start >= Len(texts) /\ wpc' # "killed") =>
         /\ wpc' = "write_embed"
         /\ \A k \in 1..Len(all_embeddings) :
               /\ Len(all_embeddings[k]) \in 1..batch_size
               /\ k < Len(all_embeddings) => Len(all_embeddings[k]) = batch_size
         /\ Len(embeddings') = Len(texts)
         /\ \A i \in 1..Len(texts) : embeddings'[i] = Emb(texts[i])]_vars

\* The part of C1 the code does satisfy: every matrix the stage assembles
\* has one row per text, row i the embedding of text i.
OrderPreservedWhenAssembled ==
    wpc \in {"write_embed", "write_labels", "write_meta"} =>
        /\ Len(embeddings) = Len(texts)
        /\ \A i \in 1..Len(texts) : embeddings[i] = Emb(texts[i])

\* C2: the reader goes past loading the matrix only when the binary file
\* is exactly count * dim * 4 bytes long.
C2_ByteLengthValidated ==
    PastLoad => Len(embFile.bytes) = metaFile.count * metaFile.dim * 4

\* C3: reading a bundle that one completed run wrote, untouched since,
\* yields the matrix that run wrote: same shape, same elements.
C3_RoundTrip ==
    (PastLoad /\ BundleIntact) =>
        /\ Rows(X) = Rows(lastM)
        /\ Cols(X) = Cols(lastM)
        /\ \A i \in 1..Rows(lastM) : \A j \in 1..Cols(lastM) : X[i][j] = lastM[i][j]

C3_Witness ==
    /\ PastLoad /\ BundleIntact
    /\ Rows(X) >= 2 /\ Cols(X) >= 2
    /\ X[1] # X[2]

\* C4: the reader goes past loading the matrix only when the metadata
\* dtype is present and is "float32".
C4_DtypeValidated ==
    PastLoad => (metaFile.hasDtype /\ metaFile.dtype = "float32")

\* C5: a training run whose labels document has a length other than the
\* metadata count fails: it never gets to export.
C5_LabelCountValidated ==
    tpc = "export" => Len(labels_raw) = metaFile.count

C7_ClassIdsAligned ==
    tpc = "export" =>
        \A c \in 0..(ExportDoc.num_classes - 1) :
            LET lbl == ExportDoc.classes[c + 1] IN
            /\ KeyOf(lbl) \in DOMAIN ExportDoc.label_to_id
            /\ ExportDoc.label_to_id[KeyOf(lbl)] = c
            /\ \A i \in 1..Len(labels_raw) : labels_raw[i] = lbl => y[i] = c

\* C8: every exported document has num_classes weight rows of num_features
\* columns and num_classes bias entries, and num_features is the metadata dim.
DocShapeOk(doc) ==
    /\ doc.num_classes = Len(doc.classes)
    /\ Len(doc.weights) = doc.num_classes
    /\ \A r \in 1..Len(doc.weights) : Len(doc.weights[r]) = doc.num_features
    /\ Len(doc.bias) = doc.num_classes

C8_ExportShapeChecked ==
    /\ outFile.present => DocShapeOk(outFile)
    /\ tpc = "export" => ExportDoc.num_features = metaFile.dim

\* C9: with nothing but embedding runs writing the three files, a training
\* run fits only a bundle written, all of it, by one completed run.
C9_NoPartialBundle ==
    (tampers = 0 /\ tpc = "export") => BundleIntact

\* C10: an embedding run over an empty corpus does not end in an error: it
\* assembles an empty matrix and, run to its end, leaves a bundle with
\* count = 0, an empty labels list and a binary file of zero bytes.
C10_EmptyCorpusBundle ==
    [][/\ (wpc = "embed" /\ texts = <<>> /\ wpc' # "killed") =>
             (wpc' = "write_embed" /\ embeddings' = <<>>)
       /\ (wpc = "write_meta" /\ texts = <<>> /\ wpc' = "done") =>
             /\ metaFile'.count = 0
             /\ labelsFile'.doc = <<>>
             /\ embFile'.bytes = <<>>]_vars

====
